---- MODULE Spec2Model ----
(***************************************************************************)
(* Client-side synchronisation of the collaborative jigsaw (src/game.rs):  *)
(* struct Game, its input handlers (click, release, update_cursor), its    *)
(* message handler (handle_connection) and its frame update.               *)
(*                                                                         *)
(* Lengths are integers in units of 0.1 world units, time in ticks of one  *)
(* frame.  An Option is a sequence of length 0 (None) or 1 (Some).         *)
(* Jigsaw and Interpolated live in other modules of the crate; their       *)
(* get_all_connected, Tile::contains and the interpolator are modelled     *)
(* from their description in the specification.  Camera and drawing are    *)
(* left out.  Game::update is modelled in steps: UpdateStart, one action   *)
(* per message try_recv returns, and UpdateEnd.                            *)
(*                                                                         *)
(* Specifications: Spec (all server messages), SpecSnap (the server only   *)
(* connects tiles), SpecDrag (a second player drags a tile that the server *)
(* joins to the local player's), SpecQueue (the connection as a queue) and *)
(* SpecRun (the set-up of the connection in run, then the game alone).     *)
(***************************************************************************)
EXTENDS Integers, Sequences, FiniteSets, TLC

VARIABLES
    tiles,               \* Game.jigsaw.tiles: index -> Tile
    players,             \* Game.players: Collection<Player>, id -> Player
    time,                \* Game.time
    intro_time,          \* Game.intro_time
    play_connect_sound,  \* Game.play_connect_sound
    pc,                  \* "idle", or "recv" inside update's handle_connection loop
    sent,                \* the messages the last handler gave to connection.send
    last,                \* the operation applied last (an event or a message)
    nrecv,               \* number of messages try_recv has returned so far
    nconnect,            \* number of ConnectTiles among them in this update
    crashed,             \* a panic (unwrap on None, unreachable!) ended the client
    inbox,               \* the messages the connection holds for try_recv
    arrived,             \* every message that reached the connection, in order
    applied              \* every message handle_connection has matched, in order

vars == <<tiles, players, time, intro_time, play_connect_sound, pc, sent, last,
          nrecv, nconnect, crashed, inbox, arrived, applied>>

\* the connection's receiving side and its two logs
queue == <<inbox, arrived, applied>>

----------------------------------------------------------------------------
(* Bounds of the model *)

\* Number of player ids the server uses; id 1 is the local player.
NPlayers == 2
\* Number of messages the client receives in a run of Spec.
MaxMsgs == 2
\* Number of messages the client receives in a run of SpecSnap.
MaxConnects == 3
\* Number of frames in a run.
MaxTime == 2
\* The interpolator's step per tick and axis.
InterpStep == 2
\* Number of messages the client receives in a run of SpecDrag.
MaxDragMsgs == 3
\* Number of messages the server sends in a run of SpecQueue.
MaxArrived == 3

----------------------------------------------------------------------------
(* Program constants *)

\* const SNAP_DISTANCE: f32 = 0.2
SNAP_DISTANCE == 2
\* intro_time: 1.0 in Game::new, one tick
INTRO_TIME == 1
\* Game.id, the id SetupId gave this client
id == 1
\* room_config.size: the puzzle is GridSize[1] tiles wide and GridSize[2] high
GridSize == <<2, 2>>
\* jigsaw.tile_size
tile_size == <<6, 4>>

None == <<>>
Some(x) == <<x>>
IsSome(o) == o # <<>>
Unwrap(o) == o[1]

ZERO == <<0, 0>>
VAdd(a, b) == <<a[1] + b[1], a[2] + b[2]>>
VSub(a, b) == <<a[1] - b[1], a[2] - b[2]>>
VMul(a, b) == <<a[1] * b[1], a[2] * b[2]>>
Abs(x) == IF x < 0 THEN -x ELSE x
Signum(x) == IF x > 0 THEN 1 ELSE IF x < 0 THEN -1 ELSE 0
\* Vec2::len squared
LenSq(a) == a[1] * a[1] + a[2] * a[2]

PlayerIds == 1..NPlayers
Tiles == 0..(GridSize[1] * GridSize[2] - 1)
\* Tile.puzzle_pos
puzzle_pos(t) == <<t % GridSize[1], t \div GridSize[1]>>

\* Positions of pointer events, mapped to world coordinates by the camera.
CursorPositions == {<<0, 0>>, <<0, -3>>}
\* Points at which hovered_tile is asked for the tile on top.
HoverPositions == CursorPositions \cup {<<-2, -3>>}
\* Positions and offsets the server's messages carry.
MsgPositions == {<<2, 0>>}
MsgOffsets == {<<0, 0>>}
\* rng.gen_range over the spawn area
SpawnPositions == {<<0, -10>>}
\* size / 2: Game::new shifts the solved picture to the centre
HalfSize == <<(GridSize[1] * tile_size[1]) \div 2, (GridSize[2] * tile_size[2]) \div 2>>
\* Game.bounds: the picture extended by 3.0 on every side
BoundsMin == <<-(HalfSize[1] + 30), -(HalfSize[2] + 30)>>
BoundsMax == <<HalfSize[1] + 30, HalfSize[2] + 30>>

----------------------------------------------------------------------------
(* Interpolated<Vec2<f32>> *)

InterpolatedNew(p, v) == [value |-> p, target |-> p, vel |-> v]
Teleport(i, p, v) == [value |-> p, target |-> p, vel |-> v]
ServerUpdate(i, p, v) == [i EXCEPT !.target = p]
Get(i) == i.value
GetDerivative(i) == i.vel
StepToward(d) == IF d > InterpStep THEN InterpStep
                 ELSE IF d < -InterpStep THEN -InterpStep ELSE d
InterpUpdate(i, dt) ==
    LET step == <<StepToward(i.target[1] - i.value[1]) * dt,
                  StepToward(i.target[2] - i.value[2]) * dt>>
    IN [i EXCEPT !.value = VAdd(i.value, step), !.vel = step]

----------------------------------------------------------------------------
(* Jigsaw *)

RECURSIVE Reach(_, _, _)
Reach(ts, frontier, seen) ==
    IF frontier = {} THEN seen
    ELSE LET nxt == {u \in Tiles : \E t \in frontier :
                        \E k \in 1..Len(ts[t].connected_to) : ts[t].connected_to[k] = u}
         IN Reach(ts, nxt \ (seen \cup frontier), seen \cup frontier)

\* Jigsaw::get_all_connected
get_all_connected(ts, t) == Reach(ts, {t}, {})

\* Tile::contains: the point lies in the tile's box around its visual position
contains(tile, pos) ==
    /\ 2 * Abs(pos[1] - Get(tile.interpolated)[1]) <= tile_size[1]
    /\ 2 * Abs(pos[2] - Get(tile.interpolated)[2]) <= tile_size[2]

\* Vec::contains
VecContains(s, x) == \E k \in 1..Len(s) : s[k] = x

RECURSIVE SetToSeq(_)
\* the elements of a set of integers in ascending order
SetToSeq(S) ==
    IF S = {} THEN <<>>
    ELSE LET m == CHOOSE x \in S : \A y \in S : x <= y
         IN <<m>> \o SetToSeq(S \ {m})

----------------------------------------------------------------------------
(* Messages *)

UpdatePosMsg(p, pos) == [type |-> "UpdatePos", player |-> p, pos |-> pos]
PlayerDisconnectedMsg(p) == [type |-> "PlayerDisconnected", player |-> p]
TileGrabbedMsg(p, t, off) ==
    [type |-> "TileGrabbed", player |-> p, tile |-> t, offset |-> off]
TileReleasedMsg(p, t, pos) ==
    [type |-> "TileReleased", player |-> p, tile |-> t, pos |-> pos]
ConnectTilesMsg(a, b) == [type |-> "ConnectTiles", a |-> a, b |-> b]
GrabTileMsg(t, off) == [type |-> "GrabTile", tile |-> t, offset |-> off]
ReleaseTileMsg(t, pos) == [type |-> "ReleaseTile", tile |-> t, pos |-> pos]

\* enum ServerMessage: what try_recv returns while the game runs.  In Spec the
\* server's messages are about the tiles of the right column.
ServerTiles == {1, 3}
UpdatePosMessages == {UpdatePosMsg(p, pos) : p \in PlayerIds, pos \in MsgPositions}
PlayerDisconnectedMessages == {PlayerDisconnectedMsg(p) : p \in PlayerIds}
TileGrabbedMessages ==
    {TileGrabbedMsg(p, t, off) : p \in PlayerIds, t \in ServerTiles, off \in MsgOffsets}
TileReleasedMessages ==
    {TileReleasedMsg(p, t, pos) : p \in PlayerIds, t \in ServerTiles,
                                  pos \in MsgPositions}
ConnectTilesMessages ==
    {ConnectTilesMsg(a, b) : a \in ServerTiles, b \in ServerTiles}
    \cup {ConnectTilesMsg(0, 3)}
\* In SpecSnap the server connects the tiles along the path 0 - 1 - 3 - 2, or
\* names a pair that is not adjacent.
SnapConnectTilesMessages ==
    {ConnectTilesMsg(0, 1), ConnectTilesMsg(1, 3), ConnectTilesMsg(3, 1),
     ConnectTilesMsg(3, 2), ConnectTilesMsg(0, 3), ConnectTilesMsg(3, 3)}

----------------------------------------------------------------------------
(* Game *)

\* Jigsaw::generate, then the loop of Game::new: the picture solved and centred
\* is what is shown, a random point of the spawn area is where each tile heads
NewTile(t, spawn) ==
    [connected_to |-> <<>>,
     grabbed_by |-> None,
     last_interaction_time |-> 0,
     interpolated |->
        ServerUpdate(Teleport(InterpolatedNew(VMul(puzzle_pos(t), tile_size), ZERO),
                              VSub(VMul(puzzle_pos(t), tile_size), HalfSize), ZERO),
                     spawn, ZERO)]

\* Game::new
Init ==
    /\ tiles \in {[t \in Tiles |-> NewTile(t, spawn[t])] :
                    spawn \in [Tiles -> SpawnPositions]}
    /\ players = <<>>
    /\ time = 0
    /\ intro_time = INTRO_TIME
    /\ play_connect_sound = FALSE
    /\ pc = "idle"
    /\ sent = <<>>
    /\ last = [op |-> "new"]
    /\ nrecv = 0
    /\ nconnect = 0
    /\ crashed = FALSE
    /\ inbox = <<>>
    /\ arrived = <<>>
    /\ applied = <<>>

\* Game::get_player: the table with an entry for p
get_player(ps, p) ==
    IF p \in DOMAIN ps THEN ps
    ELSE [q \in DOMAIN ps \cup {p} |->
            IF q = p THEN [interpolation |-> InterpolatedNew(ZERO, ZERO),
                           tile_grabbed |-> None]
            ELSE ps[q]]

\* move_tile without the grid offset: every tile of the component goes to pos
move_tile_together(ts, tile, pos, vel, snap) ==
    LET connected == get_all_connected(ts, tile)
    IN [t \in Tiles |->
          IF t \in connected
          THEN [ts[t] EXCEPT !.interpolated =
                   IF snap THEN Teleport(@, pos, vel) ELSE ServerUpdate(@, pos, vel)]
          ELSE ts[t]]

\* Game::move_tile
move_tile(ts, tile, pos, vel, snap) ==
    LET connected == get_all_connected(ts, tile)
        start_pos == puzzle_pos(tile)
    IN [t \in Tiles |->
          IF t \in connected
          THEN LET delta == VSub(puzzle_pos(t), start_pos)
                   p == VAdd(pos, VMul(delta, tile_size))
               IN [ts[t] EXCEPT !.interpolated =
                      IF snap THEN Teleport(@, p, vel) ELSE ServerUpdate(@, p, vel)]
          ELSE ts[t]]

\* the refresh of last_interaction_time in click and in TileGrabbed
Touch(ts, tile, now) ==
    LET connected == get_all_connected(ts, tile)
    IN [t \in Tiles |->
          IF t \in connected THEN [ts[t] EXCEPT !.last_interaction_time = now]
          ELSE ts[t]]

\* Game::hovered_tile: max_by_key returns the last of the maximal elements
hovered_tile(ts, pos) ==
    LET over == {t \in Tiles : contains(ts[t], pos)}
        best == {t \in over : \A u \in over :
                    ts[u].last_interaction_time <= ts[t].last_interaction_time}
    IN IF over = {} THEN None
       ELSE Some(CHOOSE t \in best : \A u \in best : u <= t)

\* a handler that runs to its end without a panic leaves these alone
Running == ~crashed
Panic ==
    /\ crashed' = TRUE
    /\ UNCHANGED <<tiles, players, time, intro_time, play_connect_sound>>

\* Vec2::clamp_aabb
clamp_aabb(p, lo, hi) ==
    <<IF p[1] < lo[1] THEN lo[1] ELSE IF p[1] > hi[1] THEN hi[1] ELSE p[1],
      IF p[2] < lo[2] THEN lo[2] ELSE IF p[2] > hi[2] THEN hi[2] ELSE p[2]>>

\* Game::update_cursor (MouseMove); the camera drag only moves the view
update_cursor(world_pos) ==
    LET cursor_pos == clamp_aabb(world_pos, BoundsMin, BoundsMax) IN
    /\ Running /\ pc = "idle"
    /\ sent' = <<UpdatePosMsg(id, cursor_pos)>>
    /\ players' = [get_player(players, id) EXCEPT
                     ![id].interpolation = Teleport(@, cursor_pos, ZERO)]
    /\ last' = [op |-> "update_cursor"]
    /\ UNCHANGED <<tiles, time, intro_time, play_connect_sound, pc, nrecv, nconnect,
                   crashed>>

\* Game::click (MouseDown, left button)
click(pos) ==
    /\ Running /\ pc = "idle"
    /\ last' = [op |-> "click", pos |-> pos]
    /\ UNCHANGED <<pc, nrecv, nconnect>>
    /\ LET hovered == hovered_tile(tiles, pos)
       IN IF ~IsSome(hovered)
          THEN /\ sent' = <<>>
               /\ UNCHANGED <<tiles, players, time, intro_time, play_connect_sound,
                              crashed>>
          ELSE IF id \notin DOMAIN players
          THEN sent' = <<>> /\ Panic
          ELSE LET i == Unwrap(hovered)
                   offset == VSub(Get(tiles[i].interpolated), pos)
               IN /\ players' = [players EXCEPT ![id].tile_grabbed = Some(<<i, offset>>)]
                  /\ tiles' = Touch([tiles EXCEPT ![i].grabbed_by = Some(id)], i, time)
                  /\ sent' = <<GrabTileMsg(i, offset)>>
                  /\ UNCHANGED <<time, intro_time, play_connect_sound, crashed>>

\* the snap test with the increment added instead of subtracted
SnapDeltaSignFlipped(ts, t, i) ==
    LET pos == Get(ts[t].interpolated)
        other == Get(ts[i].interpolated)
        delta == VSub(puzzle_pos(t), puzzle_pos(i))
    IN IF delta[1] = 0 /\ Abs(delta[2]) = 1
       THEN Some(VAdd(VSub(pos, other), <<0, tile_size[2] * Signum(delta[2])>>))
       ELSE IF delta[2] = 0 /\ Abs(delta[1]) = 1
       THEN Some(VAdd(VSub(pos, other), <<tile_size[1] * Signum(delta[1]), 0>>))
       ELSE None

\* the snap test of Game::release for tile t of the released component and tile i
SnapDelta(ts, t, i) ==
    LET pos == Get(ts[t].interpolated)
        other == Get(ts[i].interpolated)
        delta == VSub(puzzle_pos(t), puzzle_pos(i))
    IN IF delta[1] = 0 /\ Abs(delta[2]) = 1
       THEN Some(VSub(VSub(pos, other), <<0, tile_size[2] * Signum(delta[2])>>))
       ELSE IF delta[2] = 0 /\ Abs(delta[1]) = 1
       THEN Some(VSub(VSub(pos, other), <<tile_size[1] * Signum(delta[1]), 0>>))
       ELSE None

\* the condition with the tiles of t's own component skipped
SnapsOutsideOnly(ts, t, i) ==
    /\ i \notin get_all_connected(ts, t)
    /\ IsSome(SnapDelta(ts, t, i))
    /\ LenSq(Unwrap(SnapDelta(ts, t, i))) <= SNAP_DISTANCE * SNAP_DISTANCE

\* the condition under which release sends ConnectTiles(t, i)
Snaps(ts, t, i) ==
    /\ ~VecContains(ts[t].connected_to, i)
    /\ IsSome(SnapDelta(ts, t, i))
    /\ LenSq(Unwrap(SnapDelta(ts, t, i))) <= SNAP_DISTANCE * SNAP_DISTANCE

RECURSIVE ConnectRequests(_, _, _)
\* the inner loop of release: the requests for tile t against tiles[i..]
ConnectRequests(ts, t, i) ==
    IF i \notin Tiles THEN <<>>
    ELSE (IF Snaps(ts, t, i) THEN <<ConnectTilesMsg(t, i)>> ELSE <<>>)
         \o ConnectRequests(ts, t, i + 1)

RECURSIVE TryToConnect(_, _)
\* the outer loop of release over the tiles of the released component
TryToConnect(ts, connected) ==
    IF connected = <<>> THEN <<>>
    ELSE ConnectRequests(ts, Head(connected), 0) \o TryToConnect(ts, Tail(connected))

\* the released tile's own position as the payload
ReleasePosOfTile(ps, ts, tile_id) == Get(ts[tile_id].interpolated)

\* the position release puts into ReleaseTile: player.interpolation.get()
ReleasePos(ps, ts, tile_id) == Get(ps[id].interpolation)

\* Game::release (MouseUp)
release ==
    /\ Running /\ pc = "idle"
    /\ UNCHANGED <<pc, nrecv, nconnect>>
    /\ IF id \notin DOMAIN players
       THEN /\ sent' = <<>>
            /\ last' = [op |-> "release", held |-> None]
            /\ Panic
       ELSE /\ last' = [op |-> "release", held |-> players[id].tile_grabbed]
            /\ players' = [players EXCEPT ![id].tile_grabbed = None]
            /\ UNCHANGED <<time, intro_time, play_connect_sound, crashed>>
            /\ IF ~IsSome(players[id].tile_grabbed)
               THEN sent' = <<>> /\ UNCHANGED tiles
               ELSE LET tile_id == Unwrap(players[id].tile_grabbed)[1]
                        ts == [tiles EXCEPT ![tile_id].grabbed_by = None]
                        connected == SetToSeq(get_all_connected(ts, tile_id))
                    IN /\ tiles' = ts
                       /\ sent' = <<ReleaseTileMsg(tile_id,
                                                  ReleasePos(players, tiles, tile_id))>>
                                  \o TryToConnect(ts, connected)

----------------------------------------------------------------------------
(* Game::update and Game::handle_connection *)

\* update, up to the call of handle_connection
UpdateStart ==
    /\ Running /\ pc = "idle"
    /\ time < MaxTime
    /\ time' = time + 1
    /\ pc' = "recv"
    /\ sent' = <<>>
    /\ last' = [op |-> "update"]
    /\ UNCHANGED <<tiles, players, intro_time, play_connect_sound, nrecv, nconnect,
                   crashed>>

\* one turn of the loop of handle_connection: try_recv returned Some(m)
Received(m) ==
    /\ Running /\ pc = "recv"
    /\ nrecv' = nrecv + 1
    /\ nconnect' = IF m.type = "ConnectTiles" THEN nconnect + 1 ELSE nconnect
    /\ last' = [op |-> m.type, msg |-> m]
    /\ UNCHANGED <<time, intro_time, pc, sent>>

\* ServerMessage::UpdatePos(id, pos)
HandleUpdatePos(m) ==
    /\ Received(m)
    /\ players' = [get_player(players, m.player) EXCEPT
                     ![m.player].interpolation = ServerUpdate(@, m.pos, ZERO)]
    /\ UNCHANGED <<tiles, play_connect_sound, crashed>>

\* ServerMessage::PlayerDisconnected(id)
HandlePlayerDisconnected(m) ==
    /\ Received(m)
    /\ players' = [q \in DOMAIN players \ {m.player} |-> players[q]]
    /\ UNCHANGED <<tiles, play_connect_sound, crashed>>

\* TileGrabbed marking every tile of the component as grabbed
TileGrabbedTilesWholeComponent(ts, m, now) ==
    LET connected == get_all_connected(ts, m.tile)
    IN [t \in Tiles |->
          IF t \in connected
          THEN [ts[t] EXCEPT !.grabbed_by = Some(m.player),
                             !.last_interaction_time = now]
          ELSE ts[t]]

\* the effect of TileGrabbed on the tiles
TileGrabbedTiles(ts, m, now) ==
    Touch([ts EXCEPT ![m.tile].grabbed_by = Some(m.player)], m.tile, now)

\* ServerMessage::TileGrabbed { player, tile, offset }
HandleTileGrabbed(m) ==
    /\ Received(m)
    /\ IF m.player \notin DOMAIN players
       THEN /\ crashed' = TRUE
            /\ UNCHANGED <<tiles, players, play_connect_sound>>
       ELSE /\ players' = [players EXCEPT
                             ![m.player].tile_grabbed = Some(<<m.tile, m.offset>>)]
            /\ tiles' = TileGrabbedTiles(tiles, m, time)
            /\ UNCHANGED <<play_connect_sound, crashed>>

\* TileReleased without the reset of grabbed_by
TileReleasedTilesStillGrabbed(ts, m, offset, vel) ==
    LET t2 == move_tile(ts, m.tile, Get(ts[m.tile].interpolated), vel, TRUE)
    IN move_tile(t2, m.tile, VAdd(m.pos, offset), ZERO, FALSE)

\* TileReleased with the two moves in the other order
TileReleasedTilesTargetFirst(ts, m, offset, vel) ==
    LET t1 == [ts EXCEPT ![m.tile].grabbed_by = None]
        t2 == move_tile(t1, m.tile, VAdd(m.pos, offset), ZERO, FALSE)
    IN move_tile(t2, m.tile, Get(t1[m.tile].interpolated), vel, TRUE)

\* the effect of TileReleased on the tiles; offset and vel are the player's
TileReleasedTiles(ts, m, offset, vel) ==
    LET t1 == [ts EXCEPT ![m.tile].grabbed_by = None]
        t2 == move_tile(t1, m.tile, Get(t1[m.tile].interpolated), vel, TRUE)
    IN move_tile(t2, m.tile, VAdd(m.pos, offset), ZERO, FALSE)

\* ServerMessage::TileReleased { player, tile, pos }
HandleTileReleased(m) ==
    /\ Received(m)
    /\ LET ps == get_player(players, m.player)
           player == ps[m.player]
           offset == IF IsSome(player.tile_grabbed)
                     THEN Unwrap(player.tile_grabbed)[2] ELSE ZERO
           vel == GetDerivative(player.interpolation)
       IN /\ players' = [ps EXCEPT ![m.player].tile_grabbed = None]
          /\ tiles' = TileReleasedTiles(tiles, m, offset, vel)
    /\ UNCHANGED <<play_connect_sound, crashed>>

\* ConnectTiles with the first push only
PushEdgesOneWay(ts, a, b) == [ts EXCEPT ![a].connected_to = Append(@, b)]

\* the two pushes of ConnectTiles(a, b)
PushEdges(ts, a, b) ==
    LET t1 == [ts EXCEPT ![a].connected_to = Append(@, b)]
    IN [t1 EXCEPT ![b].connected_to = Append(@, a)]

\* a position for every pair, adjacent or not: no unreachable!()
ConnectPosAnyDelta(ts, a, b) ==
    LET delta == VSub(puzzle_pos(a), puzzle_pos(b))
    IN Some(VAdd(Get(ts[b].interpolated),
                 VMul(tile_size, <<Signum(delta[1]), Signum(delta[2])>>)))

\* the position taken from the first-named tile instead of the second
ConnectPosFromFirst(ts, a, b) ==
    LET delta == VSub(puzzle_pos(a), puzzle_pos(b))
    IN IF delta[1] = 0 /\ Abs(delta[2]) = 1
       THEN Some(VAdd(Get(ts[a].interpolated), <<0, tile_size[2] * Signum(delta[2])>>))
       ELSE IF delta[2] = 0 /\ Abs(delta[1]) = 1
       THEN Some(VAdd(Get(ts[a].interpolated), <<tile_size[1] * Signum(delta[1]), 0>>))
       ELSE None

\* the position ConnectTiles(a, b) hands to move_tile; None where the code
\* runs into unreachable!()
ConnectPos(ts, a, b) ==
    LET delta == VSub(puzzle_pos(a), puzzle_pos(b))
    IN IF delta[1] = 0 /\ Abs(delta[2]) = 1
       THEN Some(VAdd(Get(ts[b].interpolated), <<0, tile_size[2] * Signum(delta[2])>>))
       ELSE IF delta[2] = 0 /\ Abs(delta[1]) = 1
       THEN Some(VAdd(Get(ts[b].interpolated), <<tile_size[1] * Signum(delta[1]), 0>>))
       ELSE None

\* the effect of ConnectTiles(a, b) on the tiles when a and b are adjacent
ConnectTilesTiles(ts, a, b) ==
    LET t1 == PushEdges(ts, a, b)
    IN move_tile(t1, a, Unwrap(ConnectPos(t1, a, b)), ZERO, FALSE)

\* ServerMessage::ConnectTiles(a, b)
HandleConnectTiles(m) ==
    /\ Received(m)
    /\ IF ~IsSome(ConnectPos(tiles, m.a, m.b))
       THEN /\ tiles' = PushEdges(tiles, m.a, m.b)
            /\ crashed' = TRUE
            /\ UNCHANGED play_connect_sound
       ELSE /\ tiles' = ConnectTilesTiles(tiles, m.a, m.b)
            /\ play_connect_sound' = TRUE
            /\ UNCHANGED crashed
    /\ UNCHANGED players

\* the loop over the players with every hold kept
UpdatePlayersKeepHold(ps, ts, dt) ==
    [q \in DOMAIN ps |->
        [interpolation |-> InterpUpdate(ps[q].interpolation, dt),
         tile_grabbed |-> ps[q].tile_grabbed]]

\* the loop of update over the players: each cursor advances, a hold whose tile
\* is marked for somebody else is dropped
UpdatePlayers(ps, ts, dt) ==
    [q \in DOMAIN ps |->
        [interpolation |-> InterpUpdate(ps[q].interpolation, dt),
         tile_grabbed |->
            IF IsSome(ps[q].tile_grabbed)
               /\ ts[Unwrap(ps[q].tile_grabbed)[1]].grabbed_by # Some(q)
            THEN None ELSE ps[q].tile_grabbed]]

RECURSIVE ApplyMoves(_, _, _)
\* the loop over moves: the held tiles follow their players, in the order given
ApplyMoves(ts, ps, order) ==
    IF order = <<>> THEN ts
    ELSE LET q == Head(order)
             grabbed == Unwrap(ps[q].tile_grabbed)
             pos == VAdd(Get(ps[q].interpolation), grabbed[2])
         IN ApplyMoves(move_tile(ts, grabbed[1], pos, ZERO, TRUE), ps, Tail(order))

\* the orders in which the Collection may yield the players of S
Orders(S) ==
    {o \in [1..Cardinality(S) -> S] : \A i, j \in 1..Cardinality(S) :
                                          o[i] = o[j] => i = j}

\* the last step of update: tiles advance once the intro is over
UpdateTiles(ts, dt) ==
    [t \in Tiles |-> [ts[t] EXCEPT !.interpolated = InterpUpdate(@, dt)]]

\* update, from the return of handle_connection on
UpdateEnd ==
    /\ Running /\ pc = "recv"
    /\ pc' = "idle"
    /\ play_connect_sound' = FALSE
    /\ players' = UpdatePlayers(players, tiles, 1)
    /\ nconnect' = 0
    /\ last' = [op |-> "frame", sound |-> play_connect_sound, connects |-> nconnect,
                dropped |-> {<<q, Unwrap(players[q].tile_grabbed)[1]>> :
                               q \in {r \in DOMAIN players :
                                         /\ IsSome(players[r].tile_grabbed)
                                         /\ ~IsSome(players'[r].tile_grabbed)}}]
    /\ \E order \in Orders({q \in DOMAIN players : IsSome(players'[q].tile_grabbed)}) :
          LET moved == ApplyMoves(tiles, players', order)
          IN IF intro_time > 0
             THEN /\ intro_time' = intro_time - 1
                  /\ tiles' = moved
             ELSE /\ tiles' = UpdateTiles(moved, 1)
                  /\ UNCHANGED intro_time
    /\ UNCHANGED <<time, sent, nrecv, crashed>>

\* the pointer events
Input ==
    \/ \E pos \in CursorPositions : update_cursor(pos)
    \/ \E pos \in CursorPositions : click(pos)
    \/ release

\* The client with the arrival of a message and the try_recv that returns it
\* taken as one step: the queue stays empty.
Next ==
    \/ UNCHANGED queue /\ Input
    \/ UNCHANGED queue /\ UpdateStart
    \/ UNCHANGED queue /\ nrecv < MaxMsgs
          /\ \E m \in UpdatePosMessages : HandleUpdatePos(m)
    \/ UNCHANGED queue /\ nrecv < MaxMsgs
          /\ \E m \in PlayerDisconnectedMessages : HandlePlayerDisconnected(m)
    \/ UNCHANGED queue /\ nrecv < MaxMsgs
          /\ \E m \in TileGrabbedMessages : HandleTileGrabbed(m)
    \/ UNCHANGED queue /\ nrecv < MaxMsgs
          /\ \E m \in TileReleasedMessages : HandleTileReleased(m)
    \/ UNCHANGED queue /\ nrecv < MaxMsgs
          /\ \E m \in ConnectTilesMessages : HandleConnectTiles(m)
    \/ UNCHANGED queue /\ UpdateEnd

Spec == Init /\ [][Next]_vars

\* The client in a room whose server only connects tiles.
NextSnap ==
    \/ UNCHANGED queue /\ Input
    \/ UNCHANGED queue /\ UpdateStart
    \/ UNCHANGED queue /\ nrecv < MaxConnects
          /\ \E m \in SnapConnectTilesMessages : HandleConnectTiles(m)
    \/ UNCHANGED queue /\ UpdateEnd

SpecSnap == Init /\ [][NextSnap]_vars

----------------------------------------------------------------------------
(* The connection as a queue between the server and handle_connection *)

\* what the server sends in SpecQueue: player 2 shows up, takes and drops
\* tile 1, tiles 1 and 3 are joined, player 2 leaves
QueueMessages ==
    {UpdatePosMsg(2, <<2, 0>>), TileGrabbedMsg(2, 1, <<0, 0>>),
     TileReleasedMsg(2, 1, <<2, 0>>), ConnectTilesMsg(1, 3), PlayerDisconnectedMsg(2)}

\* a message from the server reaches the connection
Arrive(m) ==
    /\ Len(arrived) < MaxArrived
    /\ inbox' = Append(inbox, m)
    /\ arrived' = Append(arrived, m)
    /\ UNCHANGED <<tiles, players, time, intro_time, play_connect_sound, pc, sent,
                   last, nrecv, nconnect, crashed, applied>>

\* match message { ... }
Dispatch(m) ==
    CASE m.type = "UpdatePos" -> HandleUpdatePos(m)
      [] m.type = "PlayerDisconnected" -> HandlePlayerDisconnected(m)
      [] m.type = "TileGrabbed" -> HandleTileGrabbed(m)
      [] m.type = "TileReleased" -> HandleTileReleased(m)
      [] m.type = "ConnectTiles" -> HandleConnectTiles(m)

\* a turn of the loop that takes the newest pending message
TryRecvNewest ==
    /\ inbox # <<>>
    /\ Dispatch(inbox[Len(inbox)])
    /\ inbox' = SubSeq(inbox, 1, Len(inbox) - 1)
    /\ applied' = Append(applied, inbox[Len(inbox)])
    /\ UNCHANGED arrived

\* while let Some(message) = self.connection.try_recv(): one turn of the loop
TryRecvSome ==
    /\ inbox # <<>>
    /\ Dispatch(Head(inbox))
    /\ inbox' = Tail(inbox)
    /\ applied' = Append(applied, Head(inbox))
    /\ UNCHANGED arrived

\* try_recv returns None: the loop is left and update goes on
TryRecvNone ==
    /\ inbox = <<>>
    /\ UpdateEnd
    /\ UNCHANGED queue

NextQueue ==
    \/ \E m \in QueueMessages : Arrive(m)
    \/ UNCHANGED queue /\ UpdateStart
    \/ TryRecvSome
    \/ TryRecvNone

SpecQueue == Init /\ [][NextQueue]_vars

\* The client beside a second player who takes tile 3 while the server joins
\* tiles 1 and 3.
DragMessages ==
    {UpdatePosMsg(2, <<2, 0>>), TileGrabbedMsg(2, 3, <<0, 0>>), ConnectTilesMsg(1, 3)}

NextDrag ==
    \/ UNCHANGED queue /\ Input
    \/ UNCHANGED queue /\ UpdateStart
    \/ UNCHANGED queue /\ nrecv < MaxDragMsgs
          /\ \E m \in DragMessages : Dispatch(m)
    \/ UNCHANGED queue /\ UpdateEnd

SpecDrag == Init /\ [][NextDrag]_vars

----------------------------------------------------------------------------
(* run: the set-up of the game connection *)

SelectRoomMsg == [type |-> "SelectRoom"]

\* the future of run before the connection is there: no Game exists yet
InitRun ==
    /\ pc = "connect"
    /\ tiles = <<>>
    /\ players = <<>>
    /\ time = 0
    /\ intro_time = 0
    /\ play_connect_sound = FALSE
    /\ sent = <<>>
    /\ last = [op |-> "run"]
    /\ nrecv = 0
    /\ nconnect = 0
    /\ crashed = FALSE
    /\ inbox = <<>>
    /\ arrived = <<>>
    /\ applied = <<>>

\* connection.send(ClientMessage::SelectRoom(room))
SelectRoom ==
    /\ Running /\ pc = "connect"
    /\ pc' = "setup"
    /\ sent' = <<SelectRoomMsg>>
    /\ last' = [op |-> "SelectRoom"]
    /\ UNCHANGED <<tiles, players, time, intro_time, play_connect_sound, nrecv,
                   nconnect, crashed>>

\* Some(ServerMessage::SetupId(id, room_config)) => Game::new
SetupId ==
    /\ Running /\ pc = "setup"
    /\ pc' = "idle"
    /\ tiles' \in {[t \in Tiles |-> NewTile(t, spawn[t])] :
                     spawn \in [Tiles -> SpawnPositions]}
    /\ players' = <<>>
    /\ time' = 0
    /\ intro_time' = INTRO_TIME
    /\ sent' = <<>>
    /\ last' = [op |-> "SetupId"]
    /\ UNCHANGED <<play_connect_sound, nrecv, nconnect, crashed>>

\* a reply that leaves the set-up waiting, as if the error were swallowed
RoomNotFoundIgnored ==
    /\ Running /\ pc = "setup"
    /\ last' = [op |-> "RoomNotFound"]
    /\ sent' = <<>>
    /\ UNCHANGED <<tiles, players, time, intro_time, play_connect_sound, pc, nrecv,
                   nconnect, crashed>>

\* Some(ServerMessage::RoomNotFound) => panic!("Room not found")
RoomNotFound ==
    /\ Running /\ pc = "setup"
    /\ last' = [op |-> "RoomNotFound"]
    /\ UNCHANGED <<pc, sent, nrecv, nconnect>>
    /\ Panic

\* _ => unreachable!(): any other reply, or the connection closed
UnexpectedReply ==
    /\ Running /\ pc = "setup"
    /\ last' = [op |-> "unexpected"]
    /\ UNCHANGED <<pc, sent, nrecv, nconnect>>
    /\ Panic

\* run, and the game it starts with the local player alone in the room
NextRun ==
    \/ UNCHANGED queue /\ SelectRoom
    \/ UNCHANGED queue /\ SetupId
    \/ UNCHANGED queue /\ RoomNotFound
    \/ UNCHANGED queue /\ UnexpectedReply
    \/ UNCHANGED queue /\ Input
    \/ UNCHANGED queue /\ UpdateStart
    \/ UNCHANGED queue /\ UpdateEnd

SpecRun == InitRun /\ [][NextRun]_vars

----------------------------------------------------------------------------
(* Properties *)

\* the ConnectTiles requests among the messages of the last handler
CountSent(m) == Cardinality({k \in 1..Len(sent) : sent[k] = m})
\* the state right after a release that found a tile held
Released == last.op = "release" /\ IsSome(last.held) /\ ~crashed
ReleasedTile == Unwrap(last.held)[1]
\* this step is one turn of handle_connection that ran to its end
Applied(type) == nrecv' = nrecv + 1 /\ last'.op = type /\ ~crashed'
\* grid positions that differ by one unit along exactly one axis
Adjacent(t, o) ==
    Abs(puzzle_pos(t)[1] - puzzle_pos(o)[1]) + Abs(puzzle_pos(t)[2] - puzzle_pos(o)[2]) = 1
\* the place of tile o plus the grid delta from o to t, in world units
PlaceBeside(p, o, t) == VAdd(p, VMul(VSub(puzzle_pos(t), puzzle_pos(o)), tile_size))
\* tiles t and o qualify for a snap: adjacent, not connected, within the threshold
Qualifies(t, o) ==
    /\ ~VecContains(tiles[t].connected_to, o)
    /\ Adjacent(t, o)
    /\ LenSq(VSub(Get(tiles[t].interpolated),
                  PlaceBeside(Get(tiles[o].interpolated), o, t)))
          <= SNAP_DISTANCE * SNAP_DISTANCE
HeldByOther(ts, t) == IsSome(ts[t].grabbed_by) /\ ts[t].grabbed_by # Some(id)

\* C1: a click never sends GrabTile for a tile that another player holds at
\* the time of the click, and never marks such a tile as grabbed by the local
\* player.
C1_NoGrabOfHeldTile ==
    [][last'.op = "click" =>
          /\ \A k \in 1..Len(sent') : ~HeldByOther(tiles, sent'[k].tile)
          /\ \A t \in Tiles :
                HeldByOther(tiles, t) => tiles'[t].grabbed_by = tiles[t].grabbed_by]_vars

\* C2: on a release of a held tile, ConnectTiles(t, o) is sent if and only if t
\* is in the released tile's component, o is not connected to t, the two are
\* adjacent in the grid and t is within SNAP_DISTANCE of its place beside o.
C2_SnapRequests ==
    Released =>
        \A t, o \in Tiles :
            CountSent(ConnectTilesMsg(t, o)) > 0
            <=> (t \in get_all_connected(tiles, ReleasedTile) /\ Qualifies(t, o))

\* C2 witness: a release that sent a request for a tile of the component other
\* than the released one, and none for some adjacent pair that is too far apart.
C2_Witness ==
    /\ Released
    /\ \E k \in 1..Len(sent) :
          sent[k].type = "ConnectTiles" /\ sent[k].a # ReleasedTile
    /\ \E t \in get_all_connected(tiles, ReleasedTile), o \in Tiles :
          /\ Adjacent(t, o) /\ ~VecContains(tiles[t].connected_to, o)
          /\ CountSent(ConnectTilesMsg(t, o)) = 0

\* C3: ConnectTiles is sent only by a release, and never for a pair of which a
\* tile is held, by another player, at that time.
C3_NoSnapWhileHeld ==
    \A k \in 1..Len(sent) :
        sent[k].type = "ConnectTiles" =>
            /\ last.op = "release"
            /\ ~HeldByOther(tiles, sent[k].a)
            /\ ~HeldByOther(tiles, sent[k].b)

\* C4 as claimed: in one release every qualifying pair is named by exactly one
\* request, whether its second tile is outside or inside the component.
C4_OneRequestPerPair ==
    Released =>
        \A t \in get_all_connected(tiles, ReleasedTile), o \in Tiles :
            Qualifies(t, o) =>
                CountSent(ConnectTilesMsg(t, o)) + CountSent(ConnectTilesMsg(o, t)) = 1

\* C4: in one release every qualifying pair (t, o), t in the released
\* component, gets exactly one request ConnectTiles(t, o); a pair whose second
\* tile is outside the component is named by that request alone, a pair inside
\* the component by two requests, one in each order.
C4_OneRequestPerOrderedPair ==
    Released =>
        \A t \in get_all_connected(tiles, ReleasedTile), o \in Tiles :
            Qualifies(t, o) =>
                /\ CountSent(ConnectTilesMsg(t, o)) = 1
                /\ CountSent(ConnectTilesMsg(o, t))
                      = IF o \in get_all_connected(tiles, ReleasedTile) THEN 1 ELSE 0

\* C4 witness: a release with a qualifying pair inside the released component.
C4_Witness ==
    /\ Released
    /\ \E t, o \in get_all_connected(tiles, ReleasedTile) : Qualifies(t, o)

\* the tiles of every component stand (where == "value") or head (where ==
\* "target") exactly their grid delta times the tile size apart
Rigid(ts, where) ==
    \A a \in Tiles : \A b \in get_all_connected(ts, a) :
        ts[b].interpolated[where] = PlaceBeside(ts[a].interpolated[where], a, b)
\* the same for the component of tile a alone
RigidAround(ts, a, where) ==
    \A b \in get_all_connected(ts, a) :
        ts[b].interpolated[where] = PlaceBeside(ts[a].interpolated[where], a, b)
Displacement == last.op \in {"frame", "TileReleased", "ConnectTiles"} /\ ~crashed

\* C5 as claimed: after a drag step, a TileReleased or a ConnectTiles the tiles
\* of every component are shown exactly their grid delta times the tile size
\* apart.
C5_RigidShown == Displacement => Rigid(tiles, "value")

\* C5: after a drag step, a TileReleased or a ConnectTiles the tiles of every
\* component head for places exactly their grid delta times the tile size
\* apart; the component of a tile just dragged or released by TileReleased is
\* also shown so.  The tiles joined by ConnectTiles are shown so only once
\* they have arrived.
C5_RigidTargets ==
    Displacement =>
        /\ Rigid(tiles, "target")
        /\ last.op = "TileReleased" => RigidAround(tiles, last.msg.tile, "value")
        /\ last.op = "frame" =>
              \A q \in DOMAIN players :
                  IsSome(players[q].tile_grabbed) =>
                      RigidAround(tiles, Unwrap(players[q].tile_grabbed)[1], "value")

\* C5 witness: a TileReleased has moved a component of two tiles.
C5_Witness ==
    /\ Displacement
    /\ last.op = "TileReleased"
    /\ Cardinality(get_all_connected(tiles, last.msg.tile)) > 1
    /\ \E t \in Tiles : tiles[t].interpolated.value # tiles[t].interpolated.target

\* C6: connected_to is symmetric: tile a lists b if and only if b lists a.
C6_Symmetric ==
    \A a, b \in Tiles :
        VecContains(tiles[a].connected_to, b) <=> VecContains(tiles[b].connected_to, a)

\* C6 witness: a ConnectTiles has been applied and two tiles list each other.
C6_Witness ==
    /\ last.op = "ConnectTiles"
    /\ \E a, b \in Tiles : a # b /\ VecContains(tiles[a].connected_to, b)

\* C7: after a release of held tile t, and after a TileReleased naming t, tile t
\* is not marked as grabbed.
C7_ReleasedNotGrabbed ==
    /\ Released => ~IsSome(tiles[ReleasedTile].grabbed_by)
    /\ (last.op = "TileReleased" /\ ~crashed) => ~IsSome(tiles[last.msg.tile].grabbed_by)

\* C7 witness: a TileReleased from the server named the tile the local player
\* had clicked.
C7_Witness ==
    /\ last.op = "TileReleased"
    /\ id \in DOMAIN players
    /\ IsSome(players[id].tile_grabbed)
    /\ Unwrap(players[id].tile_grabbed)[1] = last.msg.tile
    /\ last.msg.player # id

\* C8: TileGrabbed sets last_interaction_time to the time of the tick on every
\* tile of the named tile's component, grabbed_by on the named tile, and leaves
\* grabbed_by of every other tile as it was.
C8_TileGrabbedEffect ==
    [][Applied("TileGrabbed") =>
          LET m == last'.msg
          IN \A t \in Tiles :
                /\ t \in get_all_connected(tiles, m.tile) =>
                      tiles'[t].last_interaction_time = time'
                /\ t = m.tile => tiles'[t].grabbed_by = Some(m.player)
                /\ t # m.tile => tiles'[t].grabbed_by = tiles[t].grabbed_by]_vars

\* C8 witness: a TileGrabbed named a tile of a component of two, of which the
\* other tile is nobody's.
C8_Witness ==
    /\ last.op = "TileGrabbed" /\ ~crashed
    /\ \E t \in get_all_connected(tiles, last.msg.tile) :
          /\ t # last.msg.tile
          /\ ~IsSome(tiles[t].grabbed_by)
          /\ tiles[t].last_interaction_time = time

\* C9 as claimed: ConnectTiles(a, b) sends the second-named tile b to the place
\* beside the first-named tile a, where a is shown when the message arrives.
C9_SecondMovesToFirst ==
    [][Applied("ConnectTiles") =>
          LET m == last'.msg
          IN tiles'[m.b].interpolated.target
                = PlaceBeside(Get(tiles[m.a].interpolated), m.a, m.b)]_vars

\* C9: ConnectTiles(a, b) sends the first-named tile a to the place beside the
\* second-named tile b, where b is shown when the message arrives, one tile
\* size along the axis and in the sign of the grid delta from b to a; b heads
\* for the place where it is shown.
C9_FirstMovesToSecond ==
    [][Applied("ConnectTiles") =>
          LET m == last'.msg
          IN /\ tiles'[m.a].interpolated.target
                   = PlaceBeside(Get(tiles[m.b].interpolated), m.b, m.a)
             /\ tiles'[m.b].interpolated.target = Get(tiles[m.b].interpolated)
             /\ Get(tiles'[m.a].interpolated) = Get(tiles[m.a].interpolated)
             /\ Get(tiles'[m.b].interpolated) = Get(tiles[m.b].interpolated)]_vars

\* C9 witness: a ConnectTiles of two tiles one above the other after which the
\* first-named tile is not yet shown where it heads.
C9_Witness ==
    /\ last.op = "ConnectTiles" /\ ~crashed
    /\ puzzle_pos(last.msg.a)[1] = puzzle_pos(last.msg.b)[1]
    /\ tiles[last.msg.a].interpolated.target # tiles[last.msg.a].interpolated.value
    /\ tiles[last.msg.b].interpolated.target = tiles[last.msg.b].interpolated.value

\* C10: a message naming a player that is not in the table (UpdatePos,
\* TileGrabbed, TileReleased) creates the entry and is applied; none ends the
\* client.
C10_UnknownPlayerCreated ==
    last.op \in {"UpdatePos", "TileGrabbed", "TileReleased"} =>
        ~crashed /\ last.msg.player \in DOMAIN players

\* C11 as claimed: a release while holding tile t clears the hold and sends
\* exactly one ReleaseTile, carrying t and the position where t is shown.
C11_ReleaseCarriesTilePos ==
    Released =>
        /\ ~IsSome(players[id].tile_grabbed)
        /\ Cardinality({k \in 1..Len(sent) : sent[k].type = "ReleaseTile"}) = 1
        /\ CountSent(ReleaseTileMsg(ReleasedTile,
                                    Get(tiles[ReleasedTile].interpolated))) = 1

\* C11: a release while holding tile t clears the hold (the player's
\* tile_grabbed and t's grabbed_by) and sends exactly one ReleaseTile, the
\* first message of the release, carrying t and the local player's cursor
\* position.
C11_ReleaseCarriesCursorPos ==
    Released =>
        /\ ~IsSome(players[id].tile_grabbed)
        /\ ~IsSome(tiles[ReleasedTile].grabbed_by)
        /\ Cardinality({k \in 1..Len(sent) : sent[k].type = "ReleaseTile"}) = 1
        /\ sent[1] = ReleaseTileMsg(ReleasedTile, Get(players[id].interpolation))

\* C11 witness: a release of a tile that was grabbed off its centre, so that
\* the cursor is not where the tile is shown.
C11_Witness ==
    /\ Released
    /\ Unwrap(last.held)[2] # ZERO
    /\ Get(players[id].interpolation) # Get(tiles[ReleasedTile].interpolated)

\* the grab offset and the cursor velocity TileReleased finds for player p
OffsetOf(ps, p) ==
    IF p \in DOMAIN ps /\ IsSome(ps[p].tile_grabbed)
    THEN Unwrap(ps[p].tile_grabbed)[2] ELSE ZERO
VelocityOf(ps, p) ==
    IF p \in DOMAIN ps THEN GetDerivative(ps[p].interpolation) ELSE ZERO
\* the first move of TileReleased: every tile of the component is shown at its
\* place beside the named tile, which stays where it was shown, and carries
\* the releasing player's cursor velocity
TeleportedFirst(m) ==
    \A u \in get_all_connected(tiles, m.tile) :
        /\ Get(tiles'[u].interpolated)
              = PlaceBeside(Get(tiles[m.tile].interpolated), m.tile, u)
        /\ GetDerivative(tiles'[u].interpolated) = VelocityOf(players, m.player)

\* C12 as claimed: TileReleased{player, tile, pos} first teleports the tile's
\* component to where the tile is shown, with the player's cursor velocity, and
\* then lets it head for a place where the named tile is exactly at pos.
C12_TargetIsPos ==
    [][Applied("TileReleased") =>
          LET m == last'.msg
          IN /\ TeleportedFirst(m)
             /\ tiles'[m.tile].interpolated.target = m.pos]_vars

\* C12: TileReleased{player, tile, pos} first teleports the tile's component
\* to where the tile is shown, with the player's cursor velocity, and then lets
\* it head for a place where the named tile is at pos plus the grab offset
\* recorded for the releasing player (pos itself if no hold is recorded).
C12_TargetIsPosPlusOffset ==
    [][Applied("TileReleased") =>
          LET m == last'.msg
          IN /\ TeleportedFirst(m)
             /\ \A u \in get_all_connected(tiles, m.tile) :
                   tiles'[u].interpolated.target
                      = PlaceBeside(VAdd(m.pos, OffsetOf(players, m.player)), m.tile, u)]_vars

\* C12 witness: a TileReleased left its tile shown away from where it heads
\* and moving with the velocity of the releasing player's cursor.
C12_Witness ==
    /\ last.op = "TileReleased" /\ ~crashed
    /\ tiles[last.msg.tile].interpolated.value # tiles[last.msg.tile].interpolated.target
    /\ tiles[last.msg.tile].interpolated.vel # ZERO
    /\ tiles[last.msg.tile].interpolated.vel
          = GetDerivative(players[last.msg.player].interpolation)

\* the tile player q holds, as a set of at most one tile
HeldTiles(ps, q) ==
    IF IsSome(ps[q].tile_grabbed) THEN {Unwrap(ps[q].tile_grabbed)[1]} ELSE {}
\* no tile is named by the tile_grabbed of two players
NoSharedHold(ps) ==
    \A p, q \in DOMAIN ps : p # q => HeldTiles(ps, p) \cap HeldTiles(ps, q) = {}

\* C13: TileGrabbed{player: Q, tile: t} leaves t marked as grabbed by Q,
\* whoever held it before; the end of a frame update empties the tile_grabbed
\* of every player whose tile is then marked for somebody else or for nobody,
\* and after it no two players have tile_grabbed naming the same tile.
C13_LaterGrabWins ==
    [][/\ Applied("TileGrabbed") =>
             tiles'[last'.msg.tile].grabbed_by = Some(last'.msg.player)
       /\ last'.op = "frame" =>
             /\ \A p \in DOMAIN players : \A t \in HeldTiles(players, p) :
                    tiles[t].grabbed_by # Some(p) => HeldTiles(players', p) = {}
             /\ NoSharedHold(players')
             /\ \A p \in DOMAIN players' : \A t \in HeldTiles(players', p) :
                    tiles'[t].grabbed_by = Some(p)]_vars

\* C13 witness: a frame update has emptied the hold of a player P on a tile
\* that is marked for, and held by, another player Q.
C13_Witness ==
    /\ last.op = "frame"
    /\ \E d \in last.dropped : \E q \in DOMAIN players :
          /\ q # d[1]
          /\ d[1] \in DOMAIN players
          /\ HeldTiles(players, q) = {d[2]}
          /\ tiles[d[2]].grabbed_by = Some(q)

\* the number of times this frame update played the connect sound
Triggers == IF last.sound THEN 1 ELSE 0

\* C14: a frame update plays the connect sound as many times as ConnectTiles
\* notifications were applied in it.
C14_OneSoundPerConnect == last.op = "frame" => Triggers = last.connects

\* C15: while the client runs, every edge of connected_to joins tiles whose
\* grid positions differ by one unit along exactly one axis; a ConnectTiles
\* naming tiles that are not adjacent, or the same tile twice, ends the client.
C15_EdgesAdjacent ==
    /\ ~crashed =>
          \A a, b \in Tiles : VecContains(tiles[a].connected_to, b) => Adjacent(a, b)
    /\ (last.op = "ConnectTiles" /\ ~Adjacent(last.msg.a, last.msg.b)) => crashed

\* C15 witness: after adjacent tiles were joined, a ConnectTiles naming tiles
\* that are not adjacent has ended the client.
C15_Witness ==
    /\ crashed
    /\ last.op = "ConnectTiles"
    /\ ~Adjacent(last.msg.a, last.msg.b)
    /\ \E a, b \in Tiles : Adjacent(a, b) /\ VecContains(tiles[a].connected_to, b)

\* the messages of the game itself
GameplayMessages == {"UpdatePos", "GrabTile", "ReleaseTile", "ConnectTiles"}

\* C16: the first message on the game connection is SelectRoom; while the
\* reply is awaited no gameplay message is sent; the game starts only on
\* SetupId; RoomNotFound ends the set-up for good, with no game started.
C16_SetupBeforeGameplay ==
    [][/\ ~crashed
       /\ pc = "connect" => (pc' = "setup" /\ sent' = <<SelectRoomMsg>>)
       /\ pc' \in {"connect", "setup"} =>
             \A k \in 1..Len(sent') : sent'[k].type \notin GameplayMessages
       /\ (pc = "setup" /\ pc' # "setup") => last'.op = "SetupId"
       /\ last'.op = "RoomNotFound" => (crashed' /\ pc' = "setup")]_vars

\* C16 witness: RoomNotFound was the reply to SelectRoom and the set-up is over.
C16_Witness ==
    /\ last.op = "RoomNotFound"
    /\ crashed
    /\ pc = "setup"
    /\ sent = <<SelectRoomMsg>>

\* C17: every turn of the loop of handle_connection applies the oldest
\* pending message and only that one, so that the messages applied are those
\* that arrived, in their order, none left out; the rest of the frame update
\* (holds, tile moves, interpolation) runs only when nothing is pending and
\* everything that arrived has been applied.
C17_DrainedInOrder ==
    [][/\ arrived' = applied' \o inbox'
       /\ nrecv' # nrecv =>
             /\ inbox # <<>>
             /\ last'.msg = Head(inbox)
             /\ applied' = Append(applied, Head(inbox))
             /\ nrecv' = nrecv + 1
       /\ (pc = "recv" /\ pc' = "idle") => (inbox = <<>> /\ applied = arrived)]_vars

\* C17 witness: one frame update has drained three messages and gone on.
C17_Witness ==
    /\ last.op = "frame"
    /\ time = 1
    /\ Len(applied) = 3
    /\ applied = arrived
    /\ applied[1] # applied[2]

\* the most recent last_interaction_time among the tiles of t's component
ComponentTime(ts, t) ==
    LET times == {ts[u].last_interaction_time : u \in get_all_connected(ts, t)}
    IN CHOOSE x \in times : \A y \in times : y <= x
\* the tiles that contain the point
TilesAt(ts, pos) == {t \in Tiles : contains(ts[t], pos)}
\* this step is a click on a point that no tile contains
ClickedNothing == last'.op = "click" /\ TilesAt(tiles, last'.pos) = {}

\* C18 as claimed: hovered_tile returns a tile that contains the point and
\* whose component was touched most recently among the tiles containing the
\* point; with no such tile it returns nothing and a click changes nothing.
C18_HoverByComponentTime ==
    [][/\ \A pos \in HoverPositions :
             LET hovered == hovered_tile(tiles, pos)
             IN /\ IsSome(hovered) <=> TilesAt(tiles, pos) # {}
                /\ IsSome(hovered) =>
                      /\ Unwrap(hovered) \in TilesAt(tiles, pos)
                      /\ \A u \in TilesAt(tiles, pos) :
                            ComponentTime(tiles, u)
                               <= ComponentTime(tiles, Unwrap(hovered))
       /\ ClickedNothing =>
             (sent' = <<>> /\ UNCHANGED <<tiles, players, time, crashed>>)]_vars

\* player q holds a tile that is marked as grabbed by q
Drags(ps, ts, q) ==
    /\ q \in DOMAIN ps
    /\ IsSome(ps[q].tile_grabbed)
    /\ ts[Unwrap(ps[q].tile_grabbed)[1]].grabbed_by = Some(q)
\* this step is a grab by player q: a click, or a TileGrabbed naming q
GrabBy(q) ==
    \/ last'.op = "click" /\ q = id
    \/ nrecv' # nrecv /\ last'.op = "TileGrabbed" /\ last'.msg.player = q

\* C19: while player q drags tile t, no step but a new grab by q changes the
\* grab offset o, and after every frame update t is shown at q's cursor
\* position plus o.
C19_DraggedTileFollowsCursor ==
    [][\A q \in PlayerIds :
          /\ (Drags(players, tiles, q) /\ Drags(players', tiles', q) /\ ~GrabBy(q)) =>
                players'[q].tile_grabbed = players[q].tile_grabbed
          /\ (pc = "recv" /\ pc' = "idle" /\ Drags(players', tiles', q)) =>
                Get(tiles'[Unwrap(players'[q].tile_grabbed)[1]].interpolated)
                   = VAdd(Get(players'[q].interpolation),
                          Unwrap(players'[q].tile_grabbed)[2])]_vars

\* C20: while the client runs, no tile lists the same neighbour twice in
\* connected_to and no tile lists itself.
C20_ConnectedToIsSet ==
    ~crashed =>
        \A t \in Tiles :
            /\ ~VecContains(tiles[t].connected_to, t)
            /\ \A i, j \in 1..Len(tiles[t].connected_to) :
                  tiles[t].connected_to[i] = tiles[t].connected_to[j] => i = j

\* C21: no pointer event ends the client: a click, a release or a cursor move
\* is handled without a panic, whether or not the local player has an entry
\* in the player table.
C21_InputNeverPanics ==
    last.op \in {"click", "release", "update_cursor"} => ~crashed

\* C22: after every frame update a tile is marked as grabbed by p only if p
\* is in the player table and p's tile_grabbed names that tile.
C22_MarksMatchHolds ==
    last.op = "frame" =>
        \A t \in Tiles :
            IsSome(tiles[t].grabbed_by) =>
                /\ Unwrap(tiles[t].grabbed_by) \in DOMAIN players
                /\ HeldTiles(players, Unwrap(tiles[t].grabbed_by)) = {t}

====
